---- MODULE Spec2Model ----
(***************************************************************************)
(* campus-auth-guard: the login rate limiter (Auth.tsx and the             *)
(* login_attempts / students tables with their row-level policies) and the *)
(* attendance verification flow (Dashboard.tsx, AttendanceCamera.tsx).     *)
(*                                                                         *)
(* Text values are sequences of one-character strings, so that trimming    *)
(* and the schemas' regular expressions are computed, not assumed.         *)
(* Time is counted in minutes.                                             *)
(***************************************************************************)
EXTENDS Integers, Sequences, FiniteSets, Bags, TLC

VARIABLES
    now,            \* the clock (minutes), Date.now() / NOW()
    ticks,          \* how many times the clock has advanced
    users,          \* auth.users: set of [id, email, password]
    students,       \* public.students: set of rows
    session,        \* the client's session: a user id, or NoUser
    login_attempts, \* public.login_attempts: bag of [identifier, attempt_time, success]
    page,           \* the route shown: "auth" or "dashboard"
    toast,          \* the last toast shown
    \* Dashboard.tsx (the values of a fresh mount while the page is not shown)
    loading, studentData, locationValid, currentStep, showCamera,
    verifiedAt,     \* the position that made locationValid true
    \* AttendanceCamera.tsx (the values of a fresh mount while it is not shown)
    cameraActive, faceDetected, voiceVerifying, voiceVerified,
    stream,         \* videoRef.current.srcObject: "none" or "live"
    via,            \* how voiceVerified was set: "none", "transcript", "error", "unsupported"
    \* the browser
    platform,       \* which capabilities navigator / window offer
    devicePosition, \* where the device is
    pending,        \* the callbacks of the mounted components still to come
    marks,          \* bag of markAttendance calls in flight
    \* the store
    attendance_records, \* public.attendance_records: bag of rows
    submitted,      \* the accepted inserts with the session state they came from
    \* the camera device
    orphanTracks,   \* live video tracks that no mounted component holds
    \* AttendanceRecords (the values of a fresh mount while it is not shown)
    records,        \* useState<AttendanceRecord[]>([]): sequence of rows
    fetches,        \* bag of fetchRecords calls in flight: [stage, ok, data]
    channels,       \* subscribed realtime channels 'attendance_changes'
    \* calculateDistance on its own
    measured,       \* the last two points measured, and the distance each way
    \* handleLogin calls of several tabs
    logins          \* the calls between checkRateLimit and their log row, and
                    \* whether two of them have overlapped

authVars == <<now, ticks, users, students, session, login_attempts>>
dashVars == <<loading, studentData, locationValid, currentStep, showCamera, verifiedAt>>
camVars == <<cameraActive, faceDetected, voiceVerifying, voiceVerified, stream, via>>
storeVars == <<attendance_records, submitted>>
mediaVars == <<orphanTracks>>
viewerVars == <<records, fetches, channels>>
flowVars == <<dashVars, camVars, platform, devicePosition, pending, marks, storeVars,
              mediaVars, viewerVars>>

vars == <<authVars, page, toast, flowVars, measured, logins>>

----------------------------------------------------------------------------
(* Bounds of the model *)

MaxAttempts == 6    \* rows login_attempts may hold
MaxTicks == 1       \* times the clock may advance
MaxMarks == 2       \* markAttendance calls followed (in flight or stored)
SeedRows == 9       \* rows of the first student the viewer's table starts with
MaxRows == 12       \* rows the viewer's table may hold
MaxFetches == 3     \* fetchRecords calls in flight when a client inserts
MaxSubmits == 2     \* login submissions beside the attendance flow
MaxTabs == 2        \* tabs in which handleLogin runs at the same time

(* Program constants *)
RecordsLimit == 10

WindowMinutes == 15         \* 15 * 60 * 1000 ms
FailedThreshold == 5
RetentionMinutes == 1440    \* INTERVAL '24 hours'
RollMaxLen == 50
PasswordMinLen == 8
PasswordMaxLen == 100
NameMinLen == 2
NameMaxLen == 100
EmailMaxLen == 255

NoUser == 0                 \* auth.uid() IS NULL

\* Dashboard.tsx; coordinates in millionths of a degree
COLLEGE_LAT == 28613900
COLLEGE_LON == 77209000
ALLOWED_RADIUS_METERS == 100
EarthRadius == 6371000      \* R, metres
RadPerDegree == 17453       \* Math.PI / 180, in millionths

----------------------------------------------------------------------------
(* Text *)

Lower == {"a","b","c","d","e","f","g","h","i","j","k","l","m",
          "n","o","p","q","r","s","t","u","v","w","x","y","z"}
Upper == {"A","B","C","D","E","F","G","H","I","J","K","L","M",
          "N","O","P","Q","R","S","T","U","V","W","X","Y","Z"}
Digit == {"0","1","2","3","4","5","6","7","8","9"}
Space == {" "}

RECURSIVE TrimStart(_)
TrimStart(s) ==
    IF s # <<>> /\ Head(s) \in Space THEN TrimStart(Tail(s)) ELSE s

RECURSIVE TrimEnd(_)
TrimEnd(s) ==
    IF s # <<>> /\ s[Len(s)] \in Space
    THEN TrimEnd(SubSeq(s, 1, Len(s) - 1)) ELSE s

Trim(s) == TrimEnd(TrimStart(s))

\* /^[class]+$/
AllIn(s, class) == Len(s) >= 1 /\ \A i \in 1..Len(s) : s[i] \in class

\* /[class]/
SomeIn(s, class) == \E i \in 1..Len(s) : s[i] \in class

RollNumberOk(raw) ==
    LET s == Trim(raw) IN
    /\ Len(s) >= 1
    /\ Len(s) <= RollMaxLen
    /\ AllIn(s, Lower \cup Upper \cup Digit \cup {"-"})

LoginPasswordOk(p) == Len(p) >= PasswordMinLen /\ Len(p) <= PasswordMaxLen

loginSchema(d) == RollNumberOk(d.rollNumber) /\ LoginPasswordOk(d.password)

----------------------------------------------------------------------------
(* Inputs *)

R1 == <<"r", "1">>
R2 == <<"r", "2", " ">>        \* typed with a trailing blank: the schema trims it
RBad == <<"r", " ", "1">>
Rolls == {R1, R2}

PwGood == <<"P","a","s","s","w","0","r","d">>
PwWrong == <<"P","a","s","s","w","0","r","t">>
PwShort == <<"p","w">>

E1 == <<"a","@","x",".","y">>
E2 == <<"b","@","x",".","y">>
N1 == <<"A","l"," ","B","o">>
N2 == <<"C","y">>

LoginInputs ==
    { [rollNumber |-> R1, password |-> PwGood],
      [rollNumber |-> R1, password |-> PwWrong],
      [rollNumber |-> R2, password |-> PwWrong],
      [rollNumber |-> RBad, password |-> PwGood],
      [rollNumber |-> R1, password |-> PwShort] }

\* sign-ups for a second roll number, and for the first one under another e-mail
StoreSignups ==
    { [rollNumber |-> R1, name |-> N1, email |-> E1, password |-> PwGood],
      [rollNumber |-> R2, name |-> N2, email |-> E2, password |-> PwGood],
      [rollNumber |-> R1, name |-> N2, email |-> E2, password |-> PwGood] }

\* the student ids a client may name (the last one is in no row)
StudentIds == 1..3

SignupInputs ==
    { [rollNumber |-> R1, name |-> N1, email |-> E1, password |-> PwGood],
      [rollNumber |-> R1, name |-> N1, email |-> E1, password |-> PwShort] }

SignupGood == [rollNumber |-> R1, name |-> N1, email |-> E1, password |-> PwGood]

\* what a call to a collaborator can come back with
Outcomes == {"ok", "error", "throw"}
AllOk == [rate |-> "ok", lookup |-> "ok", signIn |-> "ok"]
\* every collaborator answers, or exactly one call fails
Envs ==
    {AllOk}
    \cup { [AllOk EXCEPT !.rate = o] : o \in {"error", "throw"} }
    \cup { [AllOk EXCEPT !.lookup = o] : o \in {"error", "throw"} }
    \cup { [AllOk EXCEPT !.signIn = o] : o \in {"error", "throw"} }

TickSteps == {WindowMinutes, WindowMinutes + 1}

----------------------------------------------------------------------------
(* The persistence collaborator: tables and row-level policies *)

\* (mutant) students without its SELECT policy
StudentsVisible_NoPolicy(table, uid) == table

\* students FOR SELECT USING (auth.uid() = user_id)
StudentsVisible(table, uid) ==
    { s \in table : uid # NoUser /\ s.user_id = uid }

\* login_attempts FOR SELECT USING (identifier IN (SELECT email ... UNION
\* SELECT roll_number FROM students WHERE user_id = auth.uid()))
OwnIdentifiers(table, uid) ==
    { s.email : s \in { t \in StudentsVisible(table, uid) : t.user_id = uid } }
    \cup
    { s.roll_number : s \in { t \in StudentsVisible(table, uid) : t.user_id = uid } }

\* (mutant) login_attempts without its SELECT policy
LoginAttemptsVisible_NoPolicy(attempts, table, uid) == BagToSet(attempts)

LoginAttemptsVisible(attempts, table, uid) ==
    { r \in BagToSet(attempts) : r.identifier \in OwnIdentifiers(table, uid) }

\* login_attempts FOR INSERT WITH CHECK (true)
LoginAttemptInsertAllowed(row, uid) == TRUE

RECURSIVE Copies(_, _)
Copies(B, S) ==
    IF S = {} THEN 0
    ELSE LET r == CHOOSE x \in S : TRUE
         IN CopiesIn(r, B) + Copies(B, S \ {r})

\* (mutant) DELETE FROM login_attempts without its WHERE
cleanup_old_login_attempts_Everything(attempts, t) == EmptyBag

\* DELETE FROM login_attempts WHERE attempt_time < NOW() - INTERVAL '24 hours'
cleanup_old_login_attempts(attempts, t) ==
    LET keep == { r \in BagToSet(attempts) : ~(r.attempt_time < t - RetentionMinutes) }
    IN [r \in keep |-> CopiesIn(r, attempts)]

----------------------------------------------------------------------------
(* Auth.tsx: the rate limiter *)

\* (mutant) the query without .gte('attempt_time', fifteenMinutesAgo)
RateLimitQuery_NoWindow(rows, identifier, t) ==
    { r \in rows : r.identifier = identifier }

\* the rows the rate-limit query selects among `rows`
RateLimitQuery(rows, identifier, t) ==
    { r \in rows : /\ r.identifier = identifier
                   /\ r.attempt_time >= t - WindowMinutes }

\* (mutant) only the failures later than every success are counted
failedAttempts_SinceSuccess(attempts, data) ==
    Copies(attempts,
           { r \in data : /\ ~r.success
                           /\ \A ok \in data :
                                  ok.success => ok.attempt_time < r.attempt_time })

\* data?.filter(attempt => !attempt.success).length || 0
failedAttempts(attempts, data) ==
    Copies(attempts, { r \in data : ~r.success })

\* (mutant) the query counts every recent failed row of the table
FailedSeen_AnyIdentifier(attempts, table, uid, identifier, t) ==
    failedAttempts(attempts,
        { r \in BagToSet(attempts) : r.attempt_time >= t - WindowMinutes })

\* the failed count checkRateLimit sees for `identifier` as caller `uid`
FailedSeen(attempts, table, uid, identifier, t) ==
    failedAttempts(attempts,
        RateLimitQuery(LoginAttemptsVisible(attempts, table, uid), identifier, t))

\* (mutant) the attempt is turned away above 5 failures
checkRateLimit_Above(queryError, failed) ==
    IF queryError THEN TRUE
    ELSE IF failed > FailedThreshold THEN FALSE
    ELSE TRUE

\* (mutant) a failed query turns the attempt away
checkRateLimit_FailClosed(queryError, failed) ==
    IF queryError THEN FALSE
    ELSE IF failed >= FailedThreshold THEN FALSE
    ELSE TRUE

checkRateLimit(queryError, failed) ==
    IF queryError THEN TRUE
    ELSE IF failed >= FailedThreshold THEN FALSE
    ELSE TRUE

\* whether checkRateLimit turns `identifier` away now, its query answering
Rejects(attempts, table, uid, identifier, t) ==
    ~checkRateLimit(FALSE, FailedSeen(attempts, table, uid, identifier, t))

\* (mutant) the row keeps the column default, success = FALSE
logLoginAttempt_DefaultFlag(attempts, identifier, success, t, uid) ==
    attempts (+) SetToBag({[identifier |-> identifier, attempt_time |-> t,
                            success |-> FALSE]})

logLoginAttempt(attempts, identifier, success, t, uid) ==
    LET row == [identifier |-> identifier, attempt_time |-> t, success |-> success]
    IN IF LoginAttemptInsertAllowed(row, uid)
       THEN attempts (+) SetToBag({row})
       ELSE attempts

\* .from('students').select('email').eq('roll_number', roll).maybeSingle()
StudentLookup(table, uid, roll) ==
    { s \in StudentsVisible(table, uid) : s.roll_number = roll }

\* supabase.auth.signInWithPassword: the users the credentials sign in
SignInMatches(accounts, email, password) ==
    { u \in accounts : u.email = email /\ u.password = password }

\* no handleLogin is under way
NoLogins == [runs |-> EmptyBag, overlapped |-> FALSE]

\* what the last handleLogin called: nothing yet
NoCalls == [rate |-> "none", lookup |-> "none", signIn |-> "none", logged |-> "none"]

\* (mutant) the attempt turned away is logged like a failed one
RejectedCalls_Logged == [NoCalls EXCEPT !.rate = "rejected", !.logged = "failure"]

\* if (!canAttempt) { setLoading(false); return; }
RejectedCalls == [NoCalls EXCEPT !.rate = "rejected"]

\* (mutant) a message of its own for a roll number that was not found
FailureToast_Telling(calls) ==
    IF calls.lookup = "missing" THEN "unknown_roll" ELSE "invalid"

\* toast.error("Invalid roll number or password"), after the lookup and after signIn
FailureToast(calls) == "invalid"

\* handleLogin after checkRateLimit let it through: the lookup, the sign-in
\* and what is logged
LoginAfterCheck(d, env, c1) ==
    LET found == StudentLookup(students, session, d.rollNumber)
        caught(c) == [calls |-> [c EXCEPT !.logged = "failure"],
                      toast |-> "error", session |-> session, page |-> page]
        failure(c) == [calls |-> [c EXCEPT !.logged = "failure"],
                       toast |-> FailureToast(c), session |-> session, page |-> page]
    IN
    IF env.lookup = "throw" THEN caught([c1 EXCEPT !.lookup = "thrown"])
    ELSE IF env.lookup = "error" THEN failure([c1 EXCEPT !.lookup = "error"])
    ELSE IF found = {} THEN failure([c1 EXCEPT !.lookup = "missing"])
    ELSE
        LET student == CHOOSE s \in found : TRUE
            c2 == [c1 EXCEPT !.lookup = "found"]
            matches == SignInMatches(users, student.email, d.password)
        IN
        IF env.signIn = "throw" THEN caught([c2 EXCEPT !.signIn = "thrown"])
        ELSE IF env.signIn = "error" \/ matches = {}
        THEN failure([c2 EXCEPT !.signIn = "error"])
        ELSE [calls |-> [c2 EXCEPT !.signIn = "ok", !.logged = "success"],
              toast |-> "success",
              session |-> (CHOOSE u \in matches : TRUE).id,
              page |-> "dashboard"]

\* handleLogin's try block for valid input `d`, the collaborators answering as
\* `env`: what was called (calls), the toast shown and the session afterwards.
LoginRun(d, env) ==
    LET failed == FailedSeen(login_attempts, students, session, d.rollNumber, now)
        canAttempt == checkRateLimit(env.rate = "error", failed)
        c1 == [NoCalls EXCEPT !.rate = IF env.rate = "error" THEN "error" ELSE "allowed"]
    IN
    IF env.rate = "throw"
    THEN [calls |-> [NoCalls EXCEPT !.rate = "thrown", !.logged = "failure"],
          toast |-> "error", session |-> session, page |-> page]
    ELSE IF ~canAttempt THEN
        [calls |-> RejectedCalls,
         toast |-> "rate_limited", session |-> session, page |-> page]
    ELSE LoginAfterCheck(d, env, c1)

\* what one handleLogin does with input `d`: the toast, the session, the page
\* and the table afterwards, and what it called on the way
LoginEffect(d, env) ==
    IF ~loginSchema(d)
    THEN [calls |-> NoCalls, toast |-> "validation", session |-> session,
          page |-> page, pending |-> pending, login_attempts |-> login_attempts]
    ELSE LET r == LoginRun(d, env) IN
         [calls |-> r.calls, toast |-> r.toast, session |-> r.session,
          page |-> r.page,
          \* navigate("/dashboard") mounts the Dashboard, which calls checkUser
          pending |-> IF r.page = "dashboard" THEN {"checkUser"} ELSE pending,
          login_attempts |->
              IF r.calls.logged = "none" THEN login_attempts
              ELSE logLoginAttempt(login_attempts, d.rollNumber,
                                   r.calls.logged = "success", now, session)]

\* the form can be submitted (and the table has room for the row)
CanSubmitLogin ==
    /\ page = "auth"
    /\ BagCardinality(login_attempts) < MaxAttempts

HandleLogin(d, env) ==
    /\ CanSubmitLogin
    /\ LET e == LoginEffect(d, env) IN
        /\ toast' = e.toast
        /\ session' = e.session
        /\ page' = e.page
        /\ login_attempts' = e.login_attempts
        /\ pending' = e.pending
    /\ UNCHANGED <<now, ticks, users, students, dashVars, camVars, platform,
                   devicePosition, marks, storeVars, mediaVars, viewerVars, measured, logins>>

\* handleLogin in one of several tabs that share the session, in two steps:
\* up to the answer of checkRateLimit ...
LoginCheck(d) ==
    /\ page = "auth"
    /\ loginSchema(d)
    /\ BagCardinality(login_attempts) + BagCardinality(logins.runs) < MaxAttempts
    /\ BagCardinality(logins.runs) < MaxTabs
    /\ IF checkRateLimit(FALSE, FailedSeen(login_attempts, students, session,
                                           d.rollNumber, now))
       THEN /\ logins' = [runs |-> logins.runs (+) SetToBag({d}),
                          overlapped |-> logins.overlapped \/ logins.runs # EmptyBag]
            /\ UNCHANGED toast
       ELSE /\ toast' = "rate_limited"
            /\ UNCHANGED logins
    /\ UNCHANGED <<authVars, page, flowVars, measured>>

\* ... and from there to the end
LoginFinish(d, env) ==
    /\ BagIn(d, logins.runs)
    /\ logins' = [logins EXCEPT !.runs = logins.runs (-) SetToBag({d})]
    /\ LET r == LoginAfterCheck(d, env, [NoCalls EXCEPT !.rate = "allowed"]) IN
        /\ toast' = r.toast
        /\ session' = r.session
        /\ page' = r.page
        /\ pending' = IF r.page = "dashboard" THEN {"checkUser"} ELSE pending
        /\ login_attempts' = logLoginAttempt(login_attempts, d.rollNumber,
                                             r.calls.logged = "success", now, session)
    /\ UNCHANGED <<now, ticks, users, students, dashVars, camVars, platform,
                   devicePosition, marks, storeVars, mediaVars, viewerVars, measured>>

----------------------------------------------------------------------------
(* Auth.tsx: sign-up, and the trigger on auth.users *)

NameOk(raw) ==
    LET s == Trim(raw) IN
    /\ Len(s) >= NameMinLen
    /\ Len(s) <= NameMaxLen
    /\ AllIn(s, Lower \cup Upper \cup Space)

\* z.string().email(): one "@", something before it, a dot inside what follows
EmailOk(raw) ==
    LET s == Trim(raw)
        ats == { i \in 1..Len(s) : s[i] = "@" }
    IN /\ Len(s) <= EmailMaxLen
       /\ Cardinality(ats) = 1
       /\ \A i \in ats : /\ i > 1
                         /\ \E j \in (i + 2)..(Len(s) - 1) : s[j] = "."
       /\ \A i \in 1..Len(s) : s[i] \notin Space

SignupPasswordOk(p) ==
    /\ Len(p) >= PasswordMinLen
    /\ Len(p) <= PasswordMaxLen
    /\ SomeIn(p, Upper)
    /\ SomeIn(p, Lower)
    /\ SomeIn(p, Digit)

signupSchema(d) ==
    /\ RollNumberOk(d.rollNumber)
    /\ NameOk(d.name)
    /\ EmailOk(d.email)
    /\ SignupPasswordOk(d.password)

\* (mutant) the trigger as first written, and a table that took its row
handle_new_student_PlainInsert(table, new) ==
    table \cup { [id |-> Cardinality(table) + 1, user_id |-> new.id,
                  roll_number |-> new.roll_number, name |-> new.name,
                  email |-> new.email] }

\* (mutant) ON CONFLICT (roll_number) DO UPDATE SET name, email
handle_new_student_KeepOwner(table, new) ==
    LET old == { s \in table : s.roll_number = new.roll_number } IN
    IF old = {}
    THEN table \cup { [id |-> Cardinality(table) + 1, user_id |-> new.id,
                       roll_number |-> new.roll_number, name |-> new.name,
                       email |-> new.email] }
    ELSE (table \ old) \cup
         { [s EXCEPT !.name = new.name, !.email = new.email] : s \in old }

\* INSERT INTO students ... ON CONFLICT (roll_number) DO UPDATE SET user_id, name, email
handle_new_student(table, new) ==
    LET old == { s \in table : s.roll_number = new.roll_number } IN
    IF old = {}
    THEN table \cup { [id |-> Cardinality(table) + 1, user_id |-> new.id,
                       roll_number |-> new.roll_number, name |-> new.name,
                       email |-> new.email] }
    ELSE (table \ old) \cup
         { [s EXCEPT !.user_id = new.id, !.name = new.name, !.email = new.email] :
             s \in old }

\* sessionIssued: whether signUp answers with a session (sign-ups confirmed at once)
HandleSignup(d, sessionIssued) ==
    /\ page = "auth"
    /\ IF ~signupSchema(d)
       THEN /\ toast' = "validation"
            /\ UNCHANGED <<users, students, session>>
       ELSE IF \E u \in users : u.email = d.email
       THEN /\ toast' = "already_registered"
            /\ UNCHANGED <<users, students, session>>
       ELSE LET id == Cardinality(users) + 1 IN
            /\ users' = users \cup { [id |-> id, email |-> d.email,
                                      password |-> d.password] }
            /\ students' = handle_new_student(students,
                              [id |-> id, roll_number |-> d.rollNumber,
                               name |-> d.name, email |-> d.email])
            /\ session' = IF sessionIssued THEN id ELSE session
            /\ toast' = "account_created"
    /\ UNCHANGED <<now, ticks, login_attempts, page, flowVars, measured, logins>>

----------------------------------------------------------------------------
(* The browser: capabilities and positions *)

AllCapable == [geolocation |-> TRUE, speechRecognition |-> TRUE]
Platforms ==
    { AllCapable,
      [AllCapable EXCEPT !.geolocation = FALSE],
      [AllCapable EXCEPT !.speechRecognition = FALSE] }

\* a position at `dlat`, `dlon` millionths of a degree from the college
Offset(dlat, dlon) ==
    [latitude |-> COLLEGE_LAT + dlat, longitude |-> COLLEGE_LON + dlon]

Nearby == Offset(100, 100)      \* 28.6140, 77.2091
OnRadius == Offset(392, 922)    \* 100.00 m away
Outside == Offset(900, 0)       \* 100.08 m away
GeoPositions == {Nearby, OnRadius, Outside}

\* what the speech recognition may hear
Transcripts ==
    { <<"A", "l">>, <<"b", "o">>, <<"h", "i", " ", "A", "L">>, <<"a", " ", "l">>, <<>> }

----------------------------------------------------------------------------
(* Dashboard.tsx: calculateDistance *)
(* Angles are integers in millionths of a degree, distances integers in    *)
(* centimetres rounded up, so that distance <= 100 m keeps its meaning.    *)
(* Within a millidegree of the college sin(x/2) = x/2 and                  *)
(* 2*atan2(sqrt(a), sqrt(1-a)) = 2*sqrt(a) to nine digits.                 *)

\* the least c in lo..hi with c * c >= n
RECURSIVE SqrtSearch(_, _, _)
SqrtSearch(n, lo, hi) ==
    IF lo >= hi THEN lo
    ELSE LET mid == (lo + hi) \div 2 IN
         IF mid * mid >= n THEN SqrtSearch(n, lo, mid)
         ELSE SqrtSearch(n, mid + 1, hi)

\* Math.sqrt, rounded up
Sqrt(n) == SqrtSearch(n, 0, 46340)

\* Math.cos(lat * Math.PI / 180), in ten-thousandths
Cos(lat) ==
    LET phi == ((lat \div 1000) * RadPerDegree) \div 100000   \* 1e-4 rad
        x2 == (phi * phi) \div 10000
    IN 10000 - x2 \div 2 + (x2 * x2) \div 240000
             - (((x2 * x2) \div 10000) * x2) \div 7200000

\* (mutant) the longitude of the second point taken from the college's meridian
calculateDistance_OneSided(lat1, lon1, lat2, lon2) ==
    LET dphi == lat2 - lat1
        dlambda == lon2 - COLLEGE_LON
        k == (Cos(lat1) * Cos(lat2)) \div 10000
        l2 == dlambda * dlambda
        a == dphi * dphi * 100 + (l2 \div 100) * k + ((l2 % 100) * k) \div 100
        c == Sqrt(a)
        metresPerDegree == ((EarthRadius \div 1000) * RadPerDegree) \div 1000
    IN (c * metresPerDegree + 99999) \div 100000

\* the distance in centimetres
calculateDistance(lat1, lon1, lat2, lon2) ==
    LET dphi == lat2 - lat1
        dlambda == lon2 - lon1
        k == (Cos(lat1) * Cos(lat2)) \div 10000
        l2 == dlambda * dlambda
        a == dphi * dphi * 100 + (l2 \div 100) * k + ((l2 % 100) * k) \div 100
        c == Sqrt(a)
        metresPerDegree == ((EarthRadius \div 1000) * RadPerDegree) \div 1000
    IN (c * metresPerDegree + 99999) \div 100000

\* the points calculateDistance is tried on: a grid around the college
GridPoints ==
    { Offset(dlat, dlon) : dlat \in {-400, 0, 392, 900}, dlon \in {-500, 0, 100, 922} }

College == Offset(0, 0)
NothingMeasured == [p |-> College, q |-> College, there |-> 0, back |-> 0]

\* calculateDistance applied to p and q, each way
Measure(p, q) ==
    /\ measured' = [p |-> p, q |-> q,
                    there |-> calculateDistance(p.latitude, p.longitude,
                                                q.latitude, q.longitude),
                    back |-> calculateDistance(q.latitude, q.longitude,
                                               p.latitude, p.longitude)]
    /\ UNCHANGED <<authVars, page, toast, flowVars, logins>>

\* (mutant) distance < ALLOWED_RADIUS_METERS
WithinRadius_Exclusive(distance) == distance < ALLOWED_RADIUS_METERS * 100

\* distance <= ALLOWED_RADIUS_METERS
WithinRadius(distance) == distance <= ALLOWED_RADIUS_METERS * 100

----------------------------------------------------------------------------
(* AttendanceCamera.tsx: the transcript against the student's name *)

Alphabet == <<"a","b","c","d","e","f","g","h","i","j","k","l","m",
              "n","o","p","q","r","s","t","u","v","w","x","y","z">>
Capitals == <<"A","B","C","D","E","F","G","H","I","J","K","L","M",
              "N","O","P","Q","R","S","T","U","V","W","X","Y","Z">>

toLowerCase(s) ==
    [i \in 1..Len(s) |->
        IF \E k \in 1..Len(Capitals) : Capitals[k] = s[i]
        THEN Alphabet[CHOOSE k \in 1..Len(Capitals) : Capitals[k] = s[i]]
        ELSE s[i]]

\* s.split(' ')[0]
FirstToken(s) ==
    LET blanks == { i \in 1..Len(s) : s[i] = " " } IN
    IF blanks = {} THEN s
    ELSE SubSeq(s, 1, (CHOOSE i \in blanks : \A j \in blanks : i <= j) - 1)

\* s.includes(t)
includes(s, t) ==
    \E i \in 0..(Len(s) - Len(t)) : SubSeq(s, i + 1, i + Len(t)) = t

\* (mutant) the transcript has to hold the whole name
TranscriptMatches_WholeName(transcript, name) ==
    includes(toLowerCase(transcript), toLowerCase(name))

TranscriptMatches(transcript, name) ==
    includes(toLowerCase(transcript), FirstToken(toLowerCase(name)))

----------------------------------------------------------------------------
(* attendance_records and its policy *)

\* FOR INSERT WITH CHECK (student_id IN (SELECT id FROM students WHERE user_id = auth.uid()))
AttendanceInsertAllowed(row, table, uid) ==
    row.student_id \in { s.id : s \in { t \in table : uid # NoUser /\ t.user_id = uid } }

\* (mutant) the row's status follows the distance of its coordinates
AttendanceRow_Rechecked(m, t) ==
    [student_id |-> m.student.id,
     roll_number |-> m.student.roll_number,
     name |-> m.student.name,
     marked_at |-> t,
     gps_latitude |-> m.position.latitude,
     gps_longitude |-> m.position.longitude,
     verification_status |->
         IF WithinRadius(calculateDistance(m.position.latitude, m.position.longitude,
                                           COLLEGE_LAT, COLLEGE_LON))
         THEN "passed" ELSE "failed",
     verification_method |-> IF m.voiceVerified THEN "face+voice" ELSE "face_only"]

\* the row markAttendance composes
AttendanceRow(m, t) ==
    [student_id |-> m.student.id,
     roll_number |-> m.student.roll_number,
     name |-> m.student.name,
     marked_at |-> t,
     gps_latitude |-> m.position.latitude,
     gps_longitude |-> m.position.longitude,
     verification_status |-> "passed",
     verification_method |-> IF m.voiceVerified THEN "face+voice" ELSE "face_only"]

\* FOR SELECT USING (student_id IN (SELECT id FROM students WHERE user_id = auth.uid()))
AttendanceVisibleIn(table, studs, uid) ==
    LET own == { st.id : st \in StudentsVisible(studs, uid) }
        rows == { r \in BagToSet(table) : r.student_id \in own }
    IN [r \in rows |-> table[r]]

AttendanceVisible(table, uid) == AttendanceVisibleIn(table, students, uid)

\* .eq('student_id', studentId)
EqStudent(table, sid) ==
    [r \in { x \in BagToSet(table) : x.student_id = sid } |-> table[r]]

\* .order('marked_at', { ascending: false }): rows of one marked_at in any order
RECURSIVE OrderDesc(_)
OrderDesc(table) ==
    IF BagToSet(table) = {} THEN <<>>
    ELSE LET r == CHOOSE x \in BagToSet(table) :
                      \A y \in BagToSet(table) : x.marked_at >= y.marked_at
         IN <<r>> \o OrderDesc(table (-) SetToBag({r}))

\* (mutant) a query without .limit
Limit_None(rows, n) == rows

\* .limit(n)
Limit(rows, n) == SubSeq(rows, 1, IF Len(rows) < n THEN Len(rows) ELSE n)

\* the data of fetchRecords' query for the client with identity uid
fetchRecordsQuery(table, sid, uid) ==
    Limit(OrderDesc(EqStudent(AttendanceVisible(table, uid), sid)), RecordsLimit)

----------------------------------------------------------------------------
(* Mounting and unmounting *)

NoStudent == [id |-> 0]
NoPosition == [latitude |-> 0, longitude |-> 0]

\* useState(...) of Dashboard
DashboardFresh ==
    /\ loading' = TRUE
    /\ studentData' = NoStudent
    /\ locationValid' = FALSE
    /\ currentStep' = "location"
    /\ showCamera' = FALSE
    /\ verifiedAt' = NoPosition

\* useState(...) / useRef(null) of AttendanceCamera
CameraFresh ==
    /\ cameraActive' = FALSE
    /\ faceDetected' = FALSE
    /\ voiceVerifying' = FALSE
    /\ voiceVerified' = FALSE
    /\ stream' = "none"
    /\ via' = "none"

CameraTasks == {"getUserMedia", "faceTimer", "recognition", "fallbackTimer"}

\* a fetchRecords call whose query the store has not run yet
Sent == [stage |-> "sent", ok |-> TRUE, data |-> <<>>]

\* useState(...) of AttendanceRecords
ViewerFresh ==
    /\ records' = <<>>
    /\ fetches' = EmptyBag

\* the effect of AttendanceRecords: fetchRecords(); supabase.channel(...).subscribe()
ViewerMount ==
    /\ records' = <<>>
    /\ fetches' = SetToBag({Sent})
    /\ channels' = channels + 1

\* (mutant) a cleanup that leaves the channel subscribed
ViewerCleanup_KeepChannel(n) == n

\* return () => { supabase.removeChannel(channel); }
ViewerCleanup(n) == n - 1

\* AttendanceRecords goes away: the answers of its fetches reach nothing
ViewerUnmount ==
    /\ ViewerFresh
    /\ channels' = ViewerCleanup(channels)

\* whether videoRef.current still holds the element when the effect's cleanup
\* runs at unmount: the React version decides, and src/ does not fix it
RefAtCleanup == BOOLEAN

\* (mutant) no stopCamera anywhere: an attached stream stays live
TracksLeft_NeverStopped(granted, ref) ==
    \/ "getUserMedia" \in pending /\ granted
    \/ stream = "live"

\* the tracks startCamera leaves live once its component is gone.  A request
\* getUserMedia has not answered yet is answered later (granted or not) and finds
\* videoRef.current null: the stream is attached to nothing and nothing stops
\* its tracks.  The answer touches the device alone, so it is taken here.
\* A stream already attached is stopped by stopCamera if the ref is still set.
TracksLeft(granted, ref) ==
    \/ "getUserMedia" \in pending /\ granted
    \/ stream = "live" /\ ~ref

\* AttendanceCamera goes away by the Dashboard's doing: the cleanup calls stopCamera
CameraUnmount ==
    /\ CameraFresh
    /\ \E granted \in BOOLEAN, ref \in RefAtCleanup :
           orphanTracks' = (orphanTracks \/ TracksLeft(granted, ref))

\* the calls in flight outlive the session (owner "earlier") or the page
\* (owner "unmounted": their setState calls reach nothing)
Disown(m, owner) ==
    IF m.owner = "unmounted" THEN m ELSE [m EXCEPT !.owner = owner]

Earlier(s) == [s EXCEPT !.session = "earlier"]

\* the Dashboard goes away: its state and its children's is lost
LeaveDashboard ==
    /\ DashboardFresh
    /\ CameraUnmount
    /\ IF ~loading THEN ViewerUnmount ELSE UNCHANGED viewerVars
    /\ pending' = {}
    /\ marks' = BagOfAll(LAMBDA m : Disown(m, "unmounted"), marks)
    /\ submitted' = BagOfAll(Earlier, submitted)
    /\ UNCHANGED <<platform, devicePosition, attendance_records>>

\* the Dashboard is mounted: useEffect(() => { checkUser(); }, [])
EnterDashboard ==
    /\ pending' = {"checkUser"}
    /\ UNCHANGED <<dashVars, camVars, marks, storeVars, mediaVars, viewerVars>>

----------------------------------------------------------------------------
(* Dashboard.tsx *)

DashboardShown == page = "dashboard" /\ ~loading

\* the user opens /dashboard, in a browser with capabilities p
VisitDashboard(p) ==
    /\ page = "auth"
    /\ page' = "dashboard"
    /\ platform' = p
    /\ EnterDashboard
    /\ UNCHANGED <<authVars, toast, devicePosition, measured, logins>>

\* fetchError: the students query fails
checkUser(fetchError) ==
    /\ page = "dashboard"
    /\ "checkUser" \in pending
    /\ LET found == { s \in StudentsVisible(students, session) : s.user_id = session } IN
       IF session = NoUser
       THEN /\ page' = "auth"
            /\ LeaveDashboard
            /\ UNCHANGED toast
       ELSE IF fetchError \/ Cardinality(found) # 1
       THEN /\ toast' = "load_failed"
            /\ page' = "auth"
            /\ LeaveDashboard
       ELSE /\ studentData' = CHOOSE s \in found : TRUE
            /\ loading' = FALSE
            /\ pending' = pending \ {"checkUser"}
            /\ ViewerMount
            /\ UNCHANGED <<page, toast, locationValid, currentStep, showCamera,
                           verifiedAt, camVars, platform, devicePosition, mediaVars,
                           marks, storeVars>>
    /\ UNCHANGED <<authVars, measured, logins>>

\* the Verify Location button is rendered (and enabled)
VerifyLocationAvailable ==
    /\ DashboardShown
    /\ ~showCamera
    /\ currentStep # "complete"
    /\ ~locationValid

\* checkLocation up to the position request
checkLocation ==
    /\ VerifyLocationAvailable
    /\ IF ~platform.geolocation
       THEN /\ toast' = "geolocation_unsupported"
            /\ UNCHANGED <<loading, pending, viewerVars>>
       ELSE \* while loading, the Dashboard renders the spinner alone
            /\ loading' = TRUE
            /\ pending' = pending \cup {"position"}
            /\ ViewerUnmount
            /\ UNCHANGED toast
    /\ UNCHANGED <<authVars, page, studentData, locationValid, currentStep, showCamera,
                   verifiedAt, camVars, platform, devicePosition, mediaVars, marks,
                   storeVars, measured, logins>>

\* the callbacks of checkLocation's position request: what they leave
checkLocationResult(ok) ==
    LET distance == calculateDistance(devicePosition.latitude, devicePosition.longitude,
                                      COLLEGE_LAT, COLLEGE_LON)
        stay == [locationValid |-> locationValid, currentStep |-> currentStep,
                 showCamera |-> showCamera, verifiedAt |-> verifiedAt,
                 loading |-> FALSE, toast |-> "location_error"]
    IN IF ~ok THEN stay
       ELSE IF WithinRadius(distance)
       THEN [locationValid |-> TRUE, currentStep |-> "camera", showCamera |-> TRUE,
             verifiedAt |-> devicePosition,
             loading |-> FALSE, toast |-> "location_verified"]
       ELSE [stay EXCEPT !.toast = "outside_campus"]

PositionResult(ok) ==
    /\ page = "dashboard"
    /\ "position" \in pending
    /\ LET e == checkLocationResult(ok) IN
        /\ locationValid' = e.locationValid
        /\ currentStep' = e.currentStep
        /\ showCamera' = e.showCamera
        /\ verifiedAt' = e.verifiedAt
        /\ loading' = e.loading
        /\ toast' = e.toast
    /\ pending' = pending \ {"position"}
    /\ ViewerMount
    /\ UNCHANGED <<authVars, page, studentData, camVars, platform, devicePosition,
                   mediaVars, marks, storeVars, measured, logins>>

\* onClick={() => setCurrentStep("location")}
MarkAnother ==
    /\ DashboardShown
    /\ currentStep = "complete"
    /\ currentStep' = "location"
    /\ marks' = BagOfAll(LAMBDA m : Disown(m, "earlier"), marks)
    /\ submitted' = BagOfAll(Earlier, submitted)
    /\ UNCHANGED <<authVars, page, toast, loading, studentData, locationValid, showCamera,
                   verifiedAt, camVars, platform, devicePosition,
                   mediaVars, viewerVars, pending,
                   attendance_records, measured, logins>>

handleLogout ==
    /\ DashboardShown
    /\ session' = NoUser
    /\ page' = "auth"
    /\ LeaveDashboard
    /\ UNCHANGED <<now, ticks, users, students, login_attempts, toast, measured, logins>>

\* the user opens /auth again, the session kept
VisitAuth ==
    /\ page = "dashboard"
    /\ page' = "auth"
    /\ LeaveDashboard
    /\ UNCHANGED <<authVars, toast, measured, logins>>

\* the device is carried to p
Move(p) ==
    /\ devicePosition # p
    /\ devicePosition' = p
    /\ UNCHANGED <<authVars, page, toast, dashVars, camVars, platform, pending,
                   marks, storeVars, mediaVars, viewerVars, measured, logins>>

----------------------------------------------------------------------------
(* AttendanceCamera.tsx *)

\* (mutant) the component rendered whatever showCamera says
CameraMounted_Always == DashboardShown

\* {showCamera && <AttendanceCamera ... />}
CameraMounted == DashboardShown /\ showCamera

\* onClick={() => setCameraActive(true)}, and the effect that calls startCamera
ActivateCamera ==
    /\ CameraMounted
    /\ ~cameraActive
    /\ cameraActive' = TRUE
    /\ pending' = pending \cup {"getUserMedia"}
    /\ UNCHANGED <<authVars, page, toast, dashVars, faceDetected, voiceVerifying,
                   voiceVerified, stream, via, platform, devicePosition,
                   mediaVars, viewerVars, marks, storeVars, measured, logins>>

\* (mutant) the face timer set whatever getUserMedia answered
FaceTimerSet_Always(granted) == {"faceTimer"}

\* the setTimeout(..., 2000) inside try { ... if (videoRef.current) { ... } }
FaceTimerSet(granted) == IF granted THEN {"faceTimer"} ELSE {}

\* startCamera once getUserMedia has answered
startCamera(granted) ==
    /\ CameraMounted
    /\ "getUserMedia" \in pending
    /\ IF granted
       THEN /\ stream' = "live"
            /\ UNCHANGED toast
       ELSE /\ toast' = "camera_error"
            /\ UNCHANGED stream
    /\ pending' = (pending \ {"getUserMedia"}) \cup FaceTimerSet(granted)
    /\ UNCHANGED <<authVars, page, dashVars, cameraActive, faceDetected, voiceVerifying,
                   voiceVerified, via, platform, devicePosition,
                   mediaVars, viewerVars, marks, storeVars, measured, logins>>

\* setTimeout(() => { setFaceDetected(true); ... }, 2000)
FaceTimer ==
    /\ CameraMounted
    /\ "faceTimer" \in pending
    /\ faceDetected' = TRUE
    /\ toast' = "face_detected"
    /\ pending' = pending \ {"faceTimer"}
    /\ UNCHANGED <<authVars, page, dashVars, cameraActive, voiceVerifying, voiceVerified,
                   stream, via, platform, devicePosition,
                   mediaVars, viewerVars, marks, storeVars, measured, logins>>

\* the Start Voice Verification button is rendered and enabled
VoiceButtonAvailable ==
    /\ CameraMounted
    /\ faceDetected
    /\ ~voiceVerified
    /\ ~voiceVerifying

\* (mutant) speech recognition taken for granted
HasSpeechRecognition_Assumed(p) == TRUE

\* window.SpeechRecognition || window.webkitSpeechRecognition
HasSpeechRecognition(p) == p.speechRecognition

startVoiceVerification ==
    /\ VoiceButtonAvailable
    /\ IF ~HasSpeechRecognition(platform)
       THEN /\ toast' = "voice_unsupported"
            /\ pending' = pending \cup {"fallbackTimer"}
            /\ UNCHANGED voiceVerifying
       ELSE /\ voiceVerifying' = TRUE
            /\ pending' = pending \cup {"recognition"}
            /\ toast' = "say_name"
    /\ UNCHANGED <<authVars, page, dashVars, cameraActive, faceDetected, voiceVerified,
                   stream, via, platform, devicePosition,
                   mediaVars, viewerVars, marks, storeVars, measured, logins>>

\* the timer of the branch without speech recognition
FallbackTimer ==
    /\ CameraMounted
    /\ "fallbackTimer" \in pending
    /\ voiceVerified' = TRUE
    /\ voiceVerifying' = FALSE
    /\ via' = "unsupported"
    /\ toast' = "voice_completed"
    /\ pending' = pending \ {"fallbackTimer"}
    /\ UNCHANGED <<authVars, page, dashVars, cameraActive, faceDetected, stream,
                   platform, devicePosition, mediaVars, viewerVars, marks, storeVars,
                   measured, logins>>

\* recognition.onresult: what it leaves
onresult(transcript) ==
    IF TranscriptMatches(transcript, studentData.name)
    THEN [voiceVerified |-> TRUE, voiceVerifying |-> FALSE, via |-> "transcript",
          toast |-> "voice_success"]
    ELSE [voiceVerified |-> voiceVerified, voiceVerifying |-> FALSE, via |-> via,
          toast |-> "voice_failed"]

RecognitionResult(transcript) ==
    /\ CameraMounted
    /\ "recognition" \in pending
    /\ LET e == onresult(transcript) IN
        /\ voiceVerified' = e.voiceVerified
        /\ voiceVerifying' = e.voiceVerifying
        /\ via' = e.via
        /\ toast' = e.toast
    /\ pending' = pending \ {"recognition"}
    /\ UNCHANGED <<authVars, page, dashVars, cameraActive, faceDetected, stream,
                   platform, devicePosition, mediaVars, viewerVars, marks, storeVars,
                   measured, logins>>

\* recognition.onerror
RecognitionError ==
    /\ CameraMounted
    /\ "recognition" \in pending
    /\ voiceVerified' = TRUE
    /\ voiceVerifying' = FALSE
    /\ via' = "error"
    /\ toast' = "voice_error_face_only"
    /\ pending' = pending \ {"recognition"}
    /\ UNCHANGED <<authVars, page, dashVars, cameraActive, faceDetected, stream,
                   platform, devicePosition, mediaVars, viewerVars, marks, storeVars,
                   measured, logins>>

\* the recognition ends with neither a result nor an error (the `nomatch` and
\* `end` events of SpeechRecognition): no handler is registered for them
RecognitionEnd ==
    /\ CameraMounted
    /\ "recognition" \in pending
    /\ pending' = pending \ {"recognition"}
    /\ UNCHANGED <<authVars, page, toast, dashVars, camVars, platform, devicePosition,
                   marks, storeVars, mediaVars, viewerVars, measured, logins>>

\* the Mark Attendance button is rendered
MarkAttendanceAvailable ==
    /\ CameraMounted
    /\ faceDetected
    /\ voiceVerified

\* markAttendance up to the position request
markAttendance ==
    /\ MarkAttendanceAvailable
    /\ BagCardinality(marks) + BagCardinality(attendance_records) < MaxMarks
    /\ IF ~platform.geolocation
       THEN /\ toast' = "mark_error"
            /\ UNCHANGED marks
       ELSE /\ marks' = marks (+) SetToBag({
                   [stage |-> "position", position |-> NoPosition,
                    student |-> studentData, voiceVerified |-> voiceVerified,
                    locationValid |-> locationValid, faceDetected |-> faceDetected,
                    via |-> via, owner |-> "current", token |-> NoUser] })
            /\ UNCHANGED toast
    /\ UNCHANGED <<authVars, page, dashVars, camVars, platform, devicePosition,
                   mediaVars, viewerVars, pending, storeVars, measured, logins>>

\* (mutant) the error callback asks for the position again
MarkPosition_Retry(m, ok) ==
    /\ BagIn(m, marks)
    /\ m.stage = "position"
    /\ IF ok
       THEN /\ marks' = (marks (-) SetToBag({m}))
                        (+) SetToBag({[m EXCEPT !.stage = "insert",
                                                !.position = devicePosition,
                                                !.token = session]})
            /\ UNCHANGED toast
       ELSE /\ marks' = marks
            /\ toast' = "position_failed"
    /\ UNCHANGED <<authVars, page, dashVars, camVars, platform, devicePosition,
                   mediaVars, viewerVars, pending, storeVars, measured, logins>>

\* the callbacks of markAttendance's position request, up to the insert sent
\* (with the access token of the session the client has at that moment)
MarkPosition(m, ok) ==
    /\ BagIn(m, marks)
    /\ m.stage = "position"
    /\ IF ok
       THEN /\ marks' = (marks (-) SetToBag({m}))
                        (+) SetToBag({[m EXCEPT !.stage = "insert",
                                                !.position = devicePosition,
                                                !.token = session]})
            /\ UNCHANGED toast
       ELSE /\ marks' = marks (-) SetToBag({m})
            /\ toast' = "position_failed"
    /\ UNCHANGED <<authVars, page, dashVars, camVars, platform, devicePosition,
                   mediaVars, viewerVars, pending, storeVars, measured, logins>>

\* a row accepted by the store is announced on the channel of a mounted viewer
\* whose filter student_id=eq.${studentId} it passes: the callback calls fetchRecords
Notify(row) ==
    /\ fetches' = IF DashboardShown /\ channels > 0 /\ row.student_id = studentData.id
                  THEN fetches (+) SetToBag({Sent}) ELSE fetches
    /\ UNCHANGED <<records, channels>>

\* the insert at the store, and what follows `await` in markAttendance
MarkInsert(m, storeError) ==
    /\ BagIn(m, marks)
    /\ m.stage = "insert"
    /\ marks' = marks (-) SetToBag({m})
    /\ LET row == AttendanceRow(m, now) IN
       IF storeError \/ ~AttendanceInsertAllowed(row, students, m.token)
       THEN /\ toast' = "insert_failed"
            /\ UNCHANGED <<dashVars, camVars, pending, storeVars, mediaVars, viewerVars>>
       ELSE /\ attendance_records' = attendance_records (+) SetToBag({row})
            /\ Notify(row)
            /\ submitted' = submitted (+) SetToBag({
                   [row |-> row, via |-> m.via,
                    verified |-> m.locationValid /\ m.faceDetected /\ m.voiceVerified,
                    session |-> IF m.owner = "current" THEN "current" ELSE "earlier"] })
            /\ IF m.owner = "unmounted"
               THEN UNCHANGED <<toast, dashVars, camVars, pending, mediaVars>>
               ELSE \* stopCamera(); onAttendanceMarked(): the tracks are stopped
                    \* while the video element is there, and the camera unmounts
                    /\ currentStep' = "complete"
                    /\ showCamera' = FALSE
                    /\ toast' = "attendance_marked"
                    /\ CameraFresh
                    /\ pending' = pending \ CameraTasks
                    /\ \E granted \in BOOLEAN :
                           orphanTracks' = (orphanTracks \/ TracksLeft(granted, TRUE))
                    /\ UNCHANGED <<loading, studentData, locationValid, verifiedAt>>
    /\ UNCHANGED <<authVars, page, platform, devicePosition, measured, logins>>

----------------------------------------------------------------------------
(* AttendanceRecords *)

\* the store runs the query of a fetchRecords call; error: the query fails
FetchRead(error) ==
    /\ DashboardShown
    /\ BagIn(Sent, fetches)
    /\ fetches' = (fetches (-) SetToBag({Sent})) (+) SetToBag({
           [stage |-> "answer", ok |-> ~error,
            data |-> IF error THEN <<>>
                     ELSE fetchRecordsQuery(attendance_records, studentData.id, session)] })
    /\ UNCHANGED <<authVars, page, toast, dashVars, camVars, platform, devicePosition,
                   pending, marks, storeVars, mediaVars, records, channels, measured, logins>>

\* fetchRecords after its await: if (!error && data) setRecords(data)
FetchDone(a) ==
    /\ DashboardShown
    /\ BagIn(a, fetches)
    /\ a.stage = "answer"
    /\ records' = IF a.ok THEN a.data ELSE records
    /\ fetches' = fetches (-) SetToBag({a})
    /\ UNCHANGED <<authVars, page, toast, dashVars, camVars, platform, devicePosition,
                   pending, marks, storeVars, mediaVars, channels, measured, logins>>

----------------------------------------------------------------------------
(* The store called directly *)

\* (mutant) a table without the insert policy
StoreInsert_NoPolicy(row, table, uid) == table (+) SetToBag({row})

\* INSERT INTO attendance_records under its policy WITH CHECK
StoreInsert(row, table, uid) ==
    IF AttendanceInsertAllowed(row, students, uid)
    THEN table (+) SetToBag({row})
    ELSE table

\* a row as any client of the API can compose it
ApiRow(sid) ==
    [student_id |-> sid, roll_number |-> R1, name |-> N1, marked_at |-> now,
     gps_latitude |-> devicePosition.latitude,
     gps_longitude |-> devicePosition.longitude,
     verification_status |-> "passed", verification_method |-> "face+voice"]

\* a client inserts with the session it has, naming student sid; cap bounds the table
ApiInsert(sid, cap) ==
    /\ BagCardinality(attendance_records) < cap
    /\ BagCardinality(fetches) < MaxFetches
    /\ attendance_records' = StoreInsert(ApiRow(sid), attendance_records, session)
    /\ IF attendance_records' # attendance_records
       THEN Notify(ApiRow(sid))
       ELSE UNCHANGED viewerVars
    /\ UNCHANGED <<authVars, page, toast, dashVars, camVars, platform, devicePosition,
                   pending, marks, submitted, mediaVars, measured, logins>>

----------------------------------------------------------------------------
(* The periodic job *)

\* cleanup_old_login_attempts() is run
CleanupJob ==
    /\ login_attempts' = cleanup_old_login_attempts(login_attempts, now)
    /\ UNCHANGED <<now, ticks, users, students, session, page, toast, flowVars,
                   measured, logins>>

----------------------------------------------------------------------------
(* The clock *)

Tick(d) ==
    /\ ticks < MaxTicks
    /\ now' = now + d
    /\ ticks' = ticks + 1
    /\ UNCHANGED <<users, students, session, login_attempts, page, toast, flowVars,
                   measured, logins>>

----------------------------------------------------------------------------

Init ==
    /\ now = 0
    /\ ticks = 0
    /\ users = {}
    /\ students = {}
    /\ session = NoUser
    /\ login_attempts = EmptyBag
    /\ page = "auth"
    /\ toast = "none"
    /\ loading = TRUE
    /\ studentData = NoStudent
    /\ locationValid = FALSE
    /\ currentStep = "location"
    /\ showCamera = FALSE
    /\ verifiedAt = NoPosition
    /\ cameraActive = FALSE
    /\ faceDetected = FALSE
    /\ voiceVerifying = FALSE
    /\ voiceVerified = FALSE
    /\ stream = "none"
    /\ via = "none"
    /\ platform = AllCapable
    /\ devicePosition = Nearby
    /\ pending = {}
    /\ marks = EmptyBag
    /\ attendance_records = EmptyBag
    /\ submitted = EmptyBag
    /\ orphanTracks = FALSE
    /\ records = <<>>
    /\ fetches = EmptyBag
    /\ channels = 0
    /\ measured = NothingMeasured
    /\ logins = NoLogins

\* two accounts of an earlier day, the first one signed in, and their rows
InitViewer ==
    /\ now = 0
    /\ ticks = 0
    /\ users = { [id |-> 1, email |-> E1, password |-> PwGood],
                 [id |-> 2, email |-> E2, password |-> PwGood] }
    /\ students = { [id |-> 1, user_id |-> 1, roll_number |-> R1, name |-> N1,
                     email |-> E1],
                    [id |-> 2, user_id |-> 2, roll_number |-> R2, name |-> N2,
                     email |-> E2] }
    /\ session = 1
    /\ login_attempts = EmptyBag
    /\ page = "auth"
    /\ toast = "none"
    /\ loading = TRUE
    /\ studentData = NoStudent
    /\ locationValid = FALSE
    /\ currentStep = "location"
    /\ showCamera = FALSE
    /\ verifiedAt = NoPosition
    /\ cameraActive = FALSE
    /\ faceDetected = FALSE
    /\ voiceVerifying = FALSE
    /\ voiceVerified = FALSE
    /\ stream = "none"
    /\ via = "none"
    /\ platform = AllCapable
    /\ devicePosition = Nearby
    /\ pending = {}
    /\ marks = EmptyBag
    /\ attendance_records = [r \in {ApiRow(1), ApiRow(2)} |->
                                 IF r.student_id = 1 THEN SeedRows ELSE 1]
    /\ submitted = EmptyBag
    /\ orphanTracks = FALSE
    /\ records = <<>>
    /\ fetches = EmptyBag
    /\ channels = 0
    /\ measured = NothingMeasured
    /\ logins = NoLogins

\* signing in and out
Next ==
    \/ \E d \in LoginInputs, env \in Envs : HandleLogin(d, env)
    \/ \E d \in SignupInputs, s \in BOOLEAN : HandleSignup(d, s)
    \/ \E f \in BOOLEAN : checkUser(f)
    \/ handleLogout
    \/ VisitAuth
    \/ \E d \in TickSteps : Tick(d)

Spec == Init /\ [][Next]_vars

\* marking attendance
NextFlow ==
    \/ \E d \in SignupInputs, s \in BOOLEAN : HandleSignup(d, s)
    \/ \E p \in Platforms : VisitDashboard(p)
    \/ \E f \in BOOLEAN : checkUser(f)
    \/ checkLocation
    \/ \E ok \in BOOLEAN : PositionResult(ok)
    \/ ActivateCamera
    \/ \E granted \in BOOLEAN : startCamera(granted)
    \/ FaceTimer
    \/ startVoiceVerification
    \/ FallbackTimer
    \/ \E t \in Transcripts : RecognitionResult(t)
    \/ RecognitionError
    \/ RecognitionEnd
    \/ markAttendance
    \/ \E m \in BagToSet(marks), ok \in BOOLEAN : MarkPosition(m, ok)
    \/ \E m \in BagToSet(marks), e \in BOOLEAN : MarkInsert(m, e)
    \/ MarkAnother
    \/ handleLogout
    \/ VisitAuth
    \/ \E p \in GeoPositions : Move(p)

SpecFlow == Init /\ [][NextFlow]_vars

\* the requests the client sends, and the clicks that send them
RequestLogins ==
    { [rollNumber |-> R1, password |-> PwGood],
      [rollNumber |-> R1, password |-> PwWrong] }
RequestEnvs == {AllOk, [AllOk EXCEPT !.signIn = "error"]}

SubmitLogin(d, env) ==
    /\ BagCardinality(login_attempts) < MaxSubmits
    /\ HandleLogin(d, env)

NextRequests ==
    \/ \E d \in RequestLogins, env \in RequestEnvs : SubmitLogin(d, env)
    \/ \E s \in BOOLEAN : HandleSignup(SignupGood, s)
    \/ VisitDashboard(AllCapable)
    \/ checkUser(FALSE)
    \/ checkLocation
    \/ \E ok \in BOOLEAN : PositionResult(ok)
    \/ ActivateCamera
    \/ \E granted \in BOOLEAN : startCamera(granted)
    \/ FaceTimer
    \/ startVoiceVerification
    \/ RecognitionResult(<<"A", "l">>)
    \/ RecognitionError
    \/ RecognitionEnd
    \/ markAttendance
    \/ \E m \in BagToSet(marks), ok \in BOOLEAN : MarkPosition(m, ok)
    \/ \E m \in BagToSet(marks), e \in BOOLEAN : MarkInsert(m, e)
    \/ MarkAnother
    \/ handleLogout
    \/ VisitAuth

SpecRequests == Init /\ [][NextRequests]_vars

\* one session on a device that moves
NextMoving ==
    \/ HandleSignup(SignupGood, TRUE)
    \/ VisitDashboard(AllCapable)
    \/ checkUser(FALSE)
    \/ checkLocation
    \/ \E ok \in BOOLEAN : PositionResult(ok)
    \/ ActivateCamera
    \/ startCamera(TRUE)
    \/ FaceTimer
    \/ startVoiceVerification
    \/ RecognitionResult(<<"A", "l">>)
    \/ markAttendance
    \/ \E m \in BagToSet(marks), ok \in BOOLEAN : MarkPosition(m, ok)
    \/ \E m \in BagToSet(marks), e \in BOOLEAN : MarkInsert(m, e)
    \/ \E p \in GeoPositions : Move(p)

SpecMoving == Init /\ [][NextMoving]_vars

\* the login form of a signed-in client, open in several tabs
TabLogins == { [rollNumber |-> R1, password |-> PwWrong] }
TabEnvs == { env \in Envs : env.rate = "ok" }

NextTabs ==
    \/ \E d \in TabLogins : LoginCheck(d)
    \/ \E d \in TabLogins, env \in TabEnvs : LoginFinish(d, env)
    \/ \E d \in TickSteps : Tick(d)

SpecTabs == InitViewer /\ [][NextTabs]_vars

\* a signed-in client at the login form over more than a day, and the job
CleanupLogins ==
    { [rollNumber |-> R1, password |-> PwGood],
      [rollNumber |-> R1, password |-> PwWrong],
      [rollNumber |-> R2, password |-> PwWrong] }
CleanupTicks == {WindowMinutes, RetentionMinutes, RetentionMinutes + 1}

NextCleanup ==
    \/ \E d \in CleanupLogins : HandleLogin(d, AllOk)
    \/ VisitAuth
    \/ \E d \in CleanupTicks : Tick(d)
    \/ CleanupJob

SpecCleanup == InitViewer /\ [][NextCleanup]_vars

\* calculateDistance on pairs of points
NextDistance == \E p \in GridPoints, q \in GridPoints : Measure(p, q)

SpecDistance == Init /\ [][NextDistance]_vars

\* accounts, sessions and the store
NextStore ==
    \/ \E d \in StoreSignups, s \in BOOLEAN : HandleSignup(d, s)
    \/ \E p \in Platforms : VisitDashboard(p)
    \/ \E f \in BOOLEAN : checkUser(f)
    \/ handleLogout
    \/ VisitAuth
    \/ \E sid \in StudentIds : ApiInsert(sid, MaxMarks)

SpecStore == Init /\ [][NextStore]_vars

\* the history on the Dashboard while rows arrive
NextViewer ==
    \/ \E p \in Platforms : VisitDashboard(p)
    \/ \E f \in BOOLEAN : checkUser(f)
    \/ checkLocation
    \/ \E ok \in BOOLEAN : PositionResult(ok)
    \/ handleLogout
    \/ VisitAuth
    \/ \E sid \in StudentIds : ApiInsert(sid, MaxRows)
    \/ \E error \in BOOLEAN : FetchRead(error)
    \/ \E a \in BagToSet(fetches) : FetchDone(a)
    \/ \E d \in TickSteps : Tick(d)

SpecViewer == InitViewer /\ [][NextViewer]_vars

\* the verification steps alone, with the timers of the browser: a timer that
\* has been set and whose component stays mounted fires
NextVoice ==
    \/ \E d \in SignupInputs, s \in BOOLEAN : HandleSignup(d, s)
    \/ \E p \in Platforms : VisitDashboard(p)
    \/ \E f \in BOOLEAN : checkUser(f)
    \/ checkLocation
    \/ \E ok \in BOOLEAN : PositionResult(ok)
    \/ ActivateCamera
    \/ \E granted \in BOOLEAN : startCamera(granted)
    \/ FaceTimer
    \/ startVoiceVerification
    \/ FallbackTimer
    \/ \E t \in Transcripts : RecognitionResult(t)
    \/ RecognitionError
    \/ RecognitionEnd
    \/ handleLogout
    \/ VisitAuth

SpecVoice ==
    Init /\ [][NextVoice]_vars /\ WF_vars(FaceTimer) /\ WF_vars(FallbackTimer)

----------------------------------------------------------------------------
(* The rate limiter's claims *)

\* the failed rows stored for `identifier` no older than the window, whoever asks
FailedInWindow(identifier) ==
    Copies(login_attempts,
           { r \in BagToSet(login_attempts) :
               /\ r.identifier = identifier
               /\ ~r.success
               /\ now - r.attempt_time <= WindowMinutes })

\* the rows of the table that carry `identifier`
RowsOf(identifier) ==
    LET keep == { r \in BagToSet(login_attempts) : r.identifier = identifier }
    IN [r \in keep |-> CopiesIn(r, login_attempts)]

LoginRow(d, success) ==
    [identifier |-> d.rollNumber, attempt_time |-> now, success |-> success]

\* C1: once 5 failed attempts for an identifier lie within the last 15
\* minutes, the next handleLogin for that identifier (every collaborator
\* answering) is turned away by checkRateLimit: the rate-limit toast is shown,
\* nothing is logged and no sign-in is made.
C1_SixthRejected ==
    \A d \in LoginInputs :
        ( /\ CanSubmitLogin
          /\ loginSchema(d)
          /\ FailedInWindow(d.rollNumber) >= FailedThreshold )
        => LET e == LoginEffect(d, AllOk) IN
           /\ e.calls.rate = "rejected"
           /\ e.calls.signIn = "none"
           /\ e.toast = "rate_limited"
           /\ e.login_attempts = login_attempts

\* C2: in every reachable state the rate-limit decision for an identifier is
\* the decision taken on the rows that carry exactly that identifier: the
\* attempts made with other identifiers, whatever their number and outcome,
\* do not change it.
C2_OnlyOwnRows ==
    \A i \in Rolls :
        Rejects(login_attempts, students, session, i, now)
        = Rejects(RowsOf(i), students, session, i, now)

C2_Witness ==
    /\ Rejects(login_attempts, students, session, R1, now)
    /\ \E r \in BagToSet(login_attempts) : r.identifier = R2

\* C3: checkRateLimit turns an identifier away only when at least 5 failed
\* rows for it have attempt_time >= now - 15 min; older failures do not count.
C3_WindowOnly ==
    \A i \in Rolls :
        Rejects(login_attempts, students, session, i, now)
        => FailedInWindow(i) >= FailedThreshold

\* 4 failures at minute 0 and 2 at minute 16, the caller seeing them all: the
\* attempt after the fifth failure was let through, and so is the next
C3_Witness ==
    /\ now = WindowMinutes + 1
    /\ session # NoUser
    /\ R1 \in OwnIdentifiers(students, session)
    /\ CopiesIn([identifier |-> R1, attempt_time |-> 0, success |-> FALSE],
                login_attempts) = 4
    /\ CopiesIn([identifier |-> R1, attempt_time |-> now, success |-> FALSE],
                login_attempts) = 2
    /\ ~Rejects(login_attempts, students, session, R1, now)

\* C4: when the rate-limit query answers with an error, handleLogin is not
\* turned away, whatever is stored: it goes on to the student lookup and, the
\* student found, to the sign-in, and signs in when the password is right.
C4_FailOpen ==
    \A d \in LoginInputs :
        (CanSubmitLogin /\ loginSchema(d))
        => LET e == LoginEffect(d, [AllOk EXCEPT !.rate = "error"])
               found == StudentLookup(students, session, d.rollNumber)
           IN
           /\ e.calls.rate = "error"
           /\ e.toast # "rate_limited"
           /\ e.calls.lookup \in {"found", "missing"}
           /\ e.calls.lookup = "found" <=> found # {}
           /\ e.calls.lookup = "found" => e.calls.signIn \in {"ok", "error"}
           /\ e.calls.signIn = "ok" <=>
                \E s \in found : SignInMatches(users, s.email, d.password) # {}
           /\ e.calls.signIn = "ok" => e.page = "dashboard" /\ e.session # NoUser

\* six failures of the caller's own roll number inside the window, the last
\* one answered as a credential failure: only a failed query lets it through
C4_Witness ==
    /\ session # NoUser
    /\ FailedSeen(login_attempts, students, session, R1, now) > FailedThreshold
    /\ toast = "invalid"

\* C5: every handleLogin with valid input that is not turned away by the rate
\* limiter appends exactly one row, whatever the collaborators answer: the
\* roll number as entered, the time of the attempt, and success = TRUE exactly
\* when the sign-in succeeded.
C5_EveryOutcomeLogged ==
    \A d \in LoginInputs, env \in Envs :
        LET e == LoginEffect(d, env) IN
        (CanSubmitLogin /\ loginSchema(d) /\ e.calls.rate # "rejected")
        => /\ e.toast \in {"invalid", "success", "error"}
           /\ e.login_attempts =
                login_attempts (+) SetToBag({LoginRow(d, e.calls.signIn = "ok")})
           /\ e.calls.signIn = "ok" <=> e.toast = "success"
           /\ e.calls.signIn = "ok" <=> e.page = "dashboard"

\* a sign-in that succeeded, and failures of both identifiers, are on record
C5_Witness ==
    /\ toast = "success"
    /\ page = "dashboard"
    /\ \E r \in BagToSet(login_attempts) : r.success /\ r.identifier = R1
    /\ \E r \in BagToSet(login_attempts) : ~r.success /\ r.identifier = R1
    /\ \E r \in BagToSet(login_attempts) : ~r.success /\ r.identifier = R2

----------------------------------------------------------------------------
(* The attendance flow's claims *)

\* the accepted inserts that came from the session now on the dashboard
CurrentSessionRows ==
    Copies(submitted, { s \in BagToSet(submitted) : s.session = "current" })

DistanceToCollege ==
    calculateDistance(devicePosition.latitude, devicePosition.longitude,
                      COLLEGE_LAT, COLLEGE_LON)

C6_Gated ==
    /\ MarkAttendanceAvailable => locationValid /\ faceDetected /\ voiceVerified
    /\ cameraActive => locationValid
    /\ faceDetected => locationValid /\ cameraActive
    /\ (voiceVerifying \/ pending \cap {"recognition", "fallbackTimer"} # {})
           => faceDetected
    /\ voiceVerified => faceDetected
    /\ \A m \in BagToSet(marks) : m.locationValid /\ m.faceDetected /\ m.voiceVerified
    /\ \A s \in BagToSet(submitted) : s.verified /\ s.row.verification_status = "passed"

C6_InOrder ==
    /\ (~locationValid /\ locationValid') => ~faceDetected /\ ~voiceVerified
    /\ (~faceDetected /\ faceDetected') => locationValid /\ ~voiceVerified
    /\ (~voiceVerified /\ voiceVerified') => locationValid /\ faceDetected
    /\ BagCardinality(marks') > BagCardinality(marks)
           => locationValid /\ faceDetected /\ voiceVerified
    /\ BagCardinality(attendance_records') > BagCardinality(attendance_records)
           => \E m \in BagToSet(marks) :
                  m.locationValid /\ m.faceDetected /\ m.voiceVerified

\* C6: markAttendance can run, and a row is inserted, only for a session in
\* which locationValid, faceDetected and voiceVerified are all true, and the
\* three became true in the order location, face, voice.
C6_MarkOnlyVerified == [](C6_Gated) /\ [][C6_InOrder]_vars

\* a row was inserted for the session that is now complete
C6_Witness ==
    /\ currentStep = "complete"
    /\ locationValid
    /\ \E s \in BagToSet(submitted) : s.session = "current" /\ s.verified

\* C7: every inserted row has verification_method 'face+voice' exactly when
\* the transcript matched in its session, and 'face_only' otherwise.
C7_MethodIffTranscript ==
    \A s \in BagToSet(submitted) :
        s.row.verification_method =
            IF s.via = "transcript" THEN "face+voice" ELSE "face_only"

\* C8: the position callback of checkLocation advances to the camera step
\* (locationValid, currentStep = "camera", showCamera) exactly when the
\* position is reported and lies within 100 m of the college, the boundary
\* included; otherwise, on a device error, and without geolocation, the flow
\* stays at the location step with locationValid and showCamera false.
C8_LocationStep ==
    /\ \A ok \in BOOLEAN :
         (page = "dashboard" /\ "position" \in pending)
         => LET e == checkLocationResult(ok) IN
            /\ ~e.loading
            /\ IF ok /\ DistanceToCollege <= ALLOWED_RADIUS_METERS * 100
               THEN e.locationValid /\ e.currentStep = "camera" /\ e.showCamera
               ELSE ~e.locationValid /\ e.currentStep = "location" /\ ~e.showCamera
    /\ (page = "dashboard" /\ ~platform.geolocation)
         => /\ "position" \notin pending
            /\ ~locationValid /\ currentStep = "location" /\ ~showCamera

\* the device exactly 100 m away, and the camera step reached
C8_Witness ==
    /\ verifiedAt = OnRadius
    /\ calculateDistance(OnRadius.latitude, OnRadius.longitude, COLLEGE_LAT, COLLEGE_LON)
           = ALLOWED_RADIUS_METERS * 100
    /\ toast = "location_verified"
    /\ locationValid /\ currentStep = "camera" /\ showCamera

\* C9: whenever the dashboard shows the location step (after Mark Another
\* Attendance as on a fresh mount) the location can be verified from there.
C9_ResetRestarts ==
    (DashboardShown /\ currentStep = "location" /\ ~showCamera /\ "position" \notin pending)
    => VerifyLocationAvailable

\* C10: a session that is complete has inserted exactly one row.
C10_SingleInsert ==
    /\ CurrentSessionRows <= 1
    /\ (DashboardShown /\ currentStep = "complete") => CurrentSessionRows = 1


----------------------------------------------------------------------------
(* The camera device *)

\* C11: in every state where AttendanceCamera is not mounted, no video track
\* that startCamera acquired is still live
C11_Released == ~CameraMounted => ~orphanTracks


----------------------------------------------------------------------------
(* markAttendance: how a call ends *)

\* the markAttendance call m ends in this step
Ends(m) == BagIn(m, marks) /\ marks' = marks (-) SetToBag({m})

\* the verification state of the session
SessionState == <<faceDetected, voiceVerified, voiceVerifying, cameraActive, stream,
                  currentStep, showCamera, locationValid>>

\* C12: a markAttendance call that ends without an accepted insert (the position
\* request or the insert failed) leaves faceDetected, voiceVerified, the camera
\* stream and currentStep as they were, and the Mark Attendance button where it
\* was, so the submission can be repeated; a call of a mounted camera that ends
\* with an accepted insert leaves currentStep "complete", showCamera false and
\* the camera stopped: no stream attached and no track left live
C12_EndOfCall ==
    \A m \in BagToSet(marks) :
        Ends(m) =>
            IF attendance_records' = attendance_records
            THEN /\ UNCHANGED SessionState
                 /\ MarkAttendanceAvailable' = MarkAttendanceAvailable
                 /\ toast' \in {"position_failed", "insert_failed"}
            ELSE m.owner # "unmounted" =>
                 /\ currentStep' = "complete"
                 /\ ~showCamera'
                 /\ stream' = "none"
                 /\ orphanTracks' = orphanTracks

C12_FailureKeepsSession == [][C12_EndOfCall]_vars

\* an insert has failed and the Mark Attendance button is there for another try
C12_Witness ==
    /\ toast = "insert_failed"
    /\ MarkAttendanceAvailable
    /\ stream = "live"
    /\ marks = EmptyBag
    /\ attendance_records = EmptyBag


----------------------------------------------------------------------------
(* Voice verification *)

\* the letters of s with the capitals replaced
Lowered(s) ==
    [i \in 1..Len(s) |->
        IF \E k \in 1..26 : s[i] = Capitals[k]
        THEN Alphabet[CHOOSE k \in 1..26 : s[i] = Capitals[k]]
        ELSE s[i]]

\* t is the part of s before its first space (all of s if it has none)
IsFirstWord(t, s) ==
    /\ Len(t) <= Len(s)
    /\ t = SubSeq(s, 1, Len(t))
    /\ \A i \in 1..Len(t) : t[i] # " "
    /\ Len(t) < Len(s) => s[Len(t) + 1] = " "

\* s is t with something before it and something after it
Contains(s, t) ==
    \E i \in 0..Len(s), j \in 0..Len(s) :
        /\ i + Len(t) + j = Len(s)
        /\ s = SubSeq(s, 1, i) \o t \o SubSeq(s, Len(s) - j + 1, Len(s))

\* the transcript holds the first word of the name, capitals apart
Said(transcript) ==
    LET name == Lowered(studentData.name) IN
    \E n \in 0..Len(name) :
        /\ IsFirstWord(SubSeq(name, 1, n), name)
        /\ Contains(Lowered(transcript), SubSeq(name, 1, n))

\* C13: when a transcript arrives, voiceVerified becomes true exactly when the
\* lowercased transcript contains the lowercased first word of the student's
\* name; otherwise voiceVerified stays false, voiceVerifying is false again and
\* the Start Voice Verification button is there for another try
C13_VoiceMatch ==
    (CameraMounted /\ "recognition" \in pending) =>
        /\ ~voiceVerified
        /\ faceDetected
        /\ \A t \in Transcripts :
            LET e == onresult(t) IN
            /\ e.voiceVerified <=> Said(t)
            /\ ~e.voiceVerifying
            /\ ~Said(t) => e.toast = "voice_failed"

\* a transcript without the name has been heard and the button is back
C13_Witness ==
    /\ toast = "voice_failed"
    /\ VoiceButtonAvailable
    /\ via = "none"


\* without speech recognition nothing is listening and the button is not busy
C14_NoCapture ==
    (CameraMounted /\ ~platform.speechRecognition) =>
        /\ "recognition" \notin pending
        /\ ~voiceVerifying
        /\ voiceVerified => via = "unsupported"

\* C14: in a browser without speech recognition startVoiceVerification starts
\* no capture, and once it has been called the timer sets voiceVerified, so
\* that Mark Attendance is offered (unless the camera is left before)
C14_FallbackProceeds ==
    /\ [](C14_NoCapture)
    /\ (CameraMounted /\ "fallbackTimer" \in pending)
          ~> (MarkAttendanceAvailable \/ ~CameraMounted)

\* the timer has verified the voice of a browser that cannot listen
C14_Witness ==
    /\ ~platform.speechRecognition
    /\ MarkAttendanceAvailable
    /\ via = "unsupported"
    /\ toast = "voice_completed"


----------------------------------------------------------------------------
(* The camera refused *)

\* startCamera has failed in the mounted camera
CameraFailed ==
    /\ CameraMounted
    /\ cameraActive
    /\ "getUserMedia" \notin pending
    /\ stream = "none"

\* nothing of the session is on its way or on offer
C15_Stuck ==
    CameraFailed =>
        /\ ~faceDetected
        /\ ~voiceVerified
        /\ ~voiceVerifying
        /\ pending \cap CameraTasks = {}
        /\ ~VoiceButtonAvailable
        /\ ~MarkAttendanceAvailable
        /\ ~ENABLED ActivateCamera
        /\ \A m \in BagToSet(marks) : m.owner # "current"

\* the failed camera stays failed until the Dashboard is left
C15_OnlyRestart ==
    CameraFailed => (CameraFailed' \/ page' = "auth")

\* C15: once startCamera has failed, faceDetected is never true in that
\* session and no action of the session leads to voice verification or to an
\* insert; the session ends only by leaving the Dashboard
C15_FailureTerminal == [](C15_Stuck) /\ [][C15_OnlyRestart]_vars

\* the camera has been refused
C15_Witness ==
    /\ CameraFailed
    /\ toast = "camera_error"


----------------------------------------------------------------------------
(* attendance_records: who may insert *)

\* student sid belongs to the identity uid
Owns(uid, sid) ==
    /\ uid # NoUser
    /\ \E st \in students : st.id = sid /\ st.user_id = uid

\* an insert naming a student of another identity, or sent without a session,
\* leaves the table as it is
C16_Rejected ==
    \A sid \in StudentIds :
        ~Owns(session, sid) =>
            StoreInsert(ApiRow(sid), attendance_records, session) = attendance_records

\* every row that enters the table names a student of the inserting session
C16_Accepted ==
    \A row \in BagToSet(attendance_records') :
        CopiesIn(row, attendance_records') > CopiesIn(row, attendance_records)
            => Owns(session, row.student_id)

\* C16: every accepted attendance record has a student_id that references a
\* student whose user_id is the identity of the inserting session; an insert
\* with another student_id, or without a session, is rejected and leaves
\* attendance_records unchanged
C16_OwnStudentOnly == [](C16_Rejected) /\ [][C16_Accepted]_vars

\* a row is stored, and the session in place owns one student and not another
C16_Witness ==
    /\ attendance_records # EmptyBag
    /\ \E a \in students, b \in students :
          /\ Owns(session, a.id)
          /\ ~Owns(session, b.id)


----------------------------------------------------------------------------
(* students: one row per roll number *)

RowsOfRoll(table, roll) == { st \in table : st.roll_number = roll }

C17_OnePerRoll ==
    \A a \in students, b \in students : a.roll_number = b.roll_number => a = b

\* what the trigger leaves for a sign-up d that creates the user id
C17_Upsert ==
    \A d \in StoreSignups :
        LET id == Cardinality(users) + 1
            after == handle_new_student(students,
                        [id |-> id, roll_number |-> d.rollNumber,
                         name |-> d.name, email |-> d.email])
            known == RowsOfRoll(students, d.rollNumber) # {}
        IN /\ Cardinality(after) = Cardinality(students) + (IF known THEN 0 ELSE 1)
           /\ \E st \in after :
                 /\ RowsOfRoll(after, d.rollNumber) = {st}
                 /\ st.name = d.name
                 /\ st.email = d.email
                 /\ st.user_id = id
                 /\ known => st.id \in { o.id : o \in RowsOfRoll(students, d.rollNumber) }
           /\ \A o \in students : o.roll_number # d.rollNumber => o \in after

----------------------------------------------------------------------------
(* AttendanceRecords: what it holds *)

\* C18: the viewer never holds more than 10 rows, they are in descending
\* order of marked_at, and each has the viewer's studentId, whatever fetches
\* and change notifications came before
C18_RecentOwnRows ==
    /\ Len(records) <= 10
    /\ \A i \in 1..Len(records), j \in 1..Len(records) :
          i < j => records[i].marked_at >= records[j].marked_at
    /\ \A i \in 1..Len(records) : records[i].student_id = studentData.id

\* the viewer's student has 11 rows of two times; the viewer holds 10 of them
C18_Witness ==
    /\ DashboardShown
    /\ BagCardinality(EqStudent(attendance_records, studentData.id)) > 10
    /\ Len(records) = 10
    /\ records[1].marked_at > records[10].marked_at

\* C19: a mounted viewer has one subscribed channel and an unmounted one none:
\* the cleanup of the effect removes the channel the effect subscribed
C19_OneChannel == channels = IF DashboardShown THEN 1 ELSE 0

\* the viewer has been mounted for a second time
C19_Witness ==
    /\ DashboardShown
    /\ channels = 1
    /\ toast \in {"location_verified", "location_error"}


----------------------------------------------------------------------------
(* Login failures *)

\* no student has the roll number entered
UnknownRoll(d) == \A st \in students : st.roll_number # d.rollNumber

\* a student has it, and the password is not the one of that student's account
WrongPassword(d) ==
    \E st \in students :
        /\ st.roll_number = d.rollNumber
        /\ \A u \in users : u.email = st.email => u.password # d.password

FailedRow(d) == [identifier |-> d.rollNumber, attempt_time |-> now, success |-> FALSE]

\* C20: a login that fails because the roll number is unknown and one that
\* fails because the password is wrong show the same message, log one failed
\* attempt for the identifier entered, and leave the session and the page alone
C20_SameFailure ==
    page = "auth" =>
        \A d \in LoginInputs :
            ( /\ loginSchema(d)
              /\ ~Rejects(login_attempts, students, session, d.rollNumber, now)
              /\ UnknownRoll(d) \/ WrongPassword(d) )
            => LET e == LoginEffect(d, AllOk) IN
               /\ e.toast = "invalid"
               /\ e.session = session
               /\ e.page = page
               /\ e.login_attempts = login_attempts (+) SetToBag({FailedRow(d)})

\* both failures have just happened to a client that can see its student row
C20_Witness ==
    /\ page = "auth"
    /\ toast = "invalid"
    /\ StudentLookup(students, session, R1) # {}
    /\ \E d \in LoginInputs : UnknownRoll(d) /\ BagIn(FailedRow(d), login_attempts)
    /\ \E d \in LoginInputs : WrongPassword(d) /\ BagIn(FailedRow(d), login_attempts)


----------------------------------------------------------------------------
(* Busy flags *)

\* the Dashboard's loading is true only while checkUser or a position request
\* that will reset it is outstanding
LoadingHasOwner ==
    (page = "dashboard" /\ loading) => pending \cap {"checkUser", "position"} # {}

\* voiceVerifying is true only while a recognition that will reset it is outstanding
ListeningHasOwner ==
    (CameraMounted /\ voiceVerifying) => "recognition" \in pending

\* C21: a busy flag that has been set is reset on every outcome: whenever
\* loading or voiceVerifying is true, a callback that resets it is still to come
C21_BusyResets == LoadingHasOwner /\ ListeningHasOwner


----------------------------------------------------------------------------
(* calculateDistance *)

\* C22: the distance from p to q is the distance from q to p, and the
\* distance from a point to itself is 0
C22_SymmetricZero ==
    /\ measured.there = measured.back
    /\ measured.p = measured.q => measured.there = 0

\* two different points have been measured, a positive distance apart
C22_Witness ==
    /\ measured.p.latitude # measured.q.latitude
    /\ measured.p.longitude # measured.q.longitude
    /\ measured.there > 0


----------------------------------------------------------------------------
(* Requests and the clicks behind them *)

Requested(kind) == kind \in pending' /\ kind \notin pending
Inserts(bag) == BagCardinality([m \in {x \in BagToSet(bag) : x.stage = "insert"} |-> bag[m]])

\* a request goes out only in the step of the click that asks for it
C23_OwnAction ==
    [][ /\ Requested("position") => checkLocation
        /\ Requested("getUserMedia") => ActivateCamera
        /\ Requested("recognition") => startVoiceVerification
        /\ BagCardinality(marks') > BagCardinality(marks) => markAttendance
        /\ Inserts(marks') > Inserts(marks) =>
               \E m \in BagToSet(marks) : m.stage = "position" /\ MarkPosition(m, TRUE)
        /\ login_attempts' # login_attempts =>
               /\ \E d \in RequestLogins, env \in RequestEnvs : HandleLogin(d, env)
               /\ BagCardinality(login_attempts') = BagCardinality(login_attempts) + 1
      ]_vars

\* the step that answers a request with a failure leaves none of its kind out
C23_NoReissue ==
    [][ /\ PositionResult(FALSE) => "position" \notin pending'
        /\ startCamera(FALSE) => "getUserMedia" \notin pending'
        /\ RecognitionError \/ RecognitionEnd => "recognition" \notin pending'
        /\ (\E m \in BagToSet(marks) : MarkPosition(m, FALSE) \/ MarkInsert(m, TRUE)) =>
               /\ BagCardinality(marks') = BagCardinality(marks) - 1
               /\ Inserts(marks') <= Inserts(marks)
      ]_vars

\* C23: a position request, a camera acquisition, a speech capture, an
\* attendance insert and a sign-in are each sent in the step of a user action,
\* and the failure of one sends no other
C23_NoAutomaticRetry == C23_OwnAction /\ C23_NoReissue

\* an insert has failed, and no request is out
C23_Witness ==
    /\ toast = "insert_failed"
    /\ CameraMounted
    /\ marks = EmptyBag
    /\ pending = {}


----------------------------------------------------------------------------
(* The login form without a session *)

\* C24: with no session, the SELECT policy of login_attempts shows the client
\* no row, so checkRateLimit counts 0 failed attempts and lets every valid
\* submission through, whatever failures are stored
C24_NoSessionSeesNothing ==
    session = NoUser =>
        /\ LoginAttemptsVisible(login_attempts, students, session) = {}
        /\ \A d \in LoginInputs :
               (CanSubmitLogin /\ loginSchema(d)) =>
                   /\ FailedSeen(login_attempts, students, session,
                                 d.rollNumber, now) = 0
                   /\ ~Rejects(login_attempts, students, session, d.rollNumber, now)
                   /\ LoginEffect(d, AllOk).calls.rate = "allowed"

\* five failures of R1 are stored inside the window, and nobody is signed in
C24_Witness ==
    /\ session = NoUser
    /\ CanSubmitLogin
    /\ FailedInWindow(R1) >= FailedThreshold


\* C25: with no session the lookup of the e-mail by roll number finds no row,
\* so every valid submission, for a registered roll number or not and whatever
\* the collaborators answer, adds one failed row and makes no sign-in call
C25_NeverSignsIn ==
    session = NoUser =>
        \A d \in LoginInputs, env \in Envs :
            (CanSubmitLogin /\ loginSchema(d)) =>
                LET e == LoginEffect(d, env) IN
                /\ StudentLookup(students, session, d.rollNumber) = {}
                /\ e.calls.lookup # "found"
                /\ e.calls.signIn = "none"
                /\ e.login_attempts = login_attempts (+) SetToBag({LoginRow(d, FALSE)})
                /\ e.session = NoUser
                /\ e.page = "auth"

\* R1 is registered, nobody is signed in, and a submission for it has failed
C25_Witness ==
    /\ session = NoUser
    /\ CanSubmitLogin
    /\ toast = "invalid"
    /\ \E st \in students : st.roll_number = R1
    /\ \E u \in users : u.password = PwGood
    /\ \E r \in BagToSet(login_attempts) : r.identifier = R1 /\ ~r.success


----------------------------------------------------------------------------
(* What a refused submission leaves alone *)

\* C26: a submission that fails validation calls nothing, and one turned away
\* by the rate limiter calls only the rate-limit query: neither looks the
\* student up, signs in or adds a row to login_attempts
C26_RefusedCallsNothing ==
    \A d \in LoginInputs, env \in Envs :
        CanSubmitLogin =>
            LET e == LoginEffect(d, env) IN
            /\ ~loginSchema(d) =>
                   /\ e.calls = NoCalls
                   /\ e.toast = "validation"
            /\ (~loginSchema(d) \/ e.calls.rate = "rejected") =>
                   /\ e.calls.lookup = "none"
                   /\ e.calls.signIn = "none"
                   /\ e.calls.logged = "none"
                   /\ e.login_attempts = login_attempts
                   /\ e.session = session
                   /\ e.page = page

\* a submission has just been turned away by the rate limiter
C26_Witness ==
    /\ toast = "rate_limited"
    /\ CanSubmitLogin
    /\ Rejects(login_attempts, students, session, R1, now)


----------------------------------------------------------------------------
(* Successes and the failure count *)

\* the failed rows of the table
FailedRows ==
    LET keep == { r \in BagToSet(login_attempts) : ~r.success }
    IN [r \in keep |-> CopiesIn(r, login_attempts)]

\* a success for `identifier` is on record no earlier than one of its failures
SuccessAmongFailures(identifier) ==
    \E ok \in BagToSet(login_attempts), f \in BagToSet(login_attempts) :
        /\ ok.identifier = identifier /\ ok.success
        /\ f.identifier = identifier /\ ~f.success
        /\ f.attempt_time <= ok.attempt_time
        /\ now - f.attempt_time <= WindowMinutes

\* C27: a success does not reset the count: checkRateLimit decides as it would
\* with the successful rows taken out of the table, and a client whose query
\* returns the rows of an identifier is turned away at 5 failures inside the
\* window, a success among or after them or not
C27_SuccessKeepsCount ==
    \A i \in Rolls :
        /\ FailedSeen(login_attempts, students, session, i, now)
             = FailedSeen(FailedRows, students, session, i, now)
        /\ Rejects(login_attempts, students, session, i, now)
             = Rejects(FailedRows, students, session, i, now)
        /\ ( /\ i \in OwnIdentifiers(students, session)
             /\ FailedInWindow(i) >= FailedThreshold )
           => Rejects(login_attempts, students, session, i, now)

\* five failures and a success among them, and the client is turned away
C27_Witness ==
    /\ SuccessAmongFailures(R1)
    /\ FailedInWindow(R1) >= FailedThreshold
    /\ Rejects(login_attempts, students, session, R1, now)


----------------------------------------------------------------------------
(* The bound on failures *)

\* the failed rows stored for `identifier` with attempt_time in [from, to]
FailedBetween(identifier, from, to) ==
    Copies(login_attempts,
           { r \in BagToSet(login_attempts) :
               /\ r.identifier = identifier
               /\ ~r.success
               /\ from <= r.attempt_time /\ r.attempt_time <= to })

\* C28: as long as the calls of handleLogin for an identifier have run one
\* after the other, each with a query that returned the identifier's rows, no
\* 15 minutes hold more than 5 failed rows of it
C28_SerialBound ==
    ~logins.overlapped =>
        \A i \in Rolls, t \in 0..now :
            FailedBetween(i, t - WindowMinutes, t) <= FailedThreshold

\* two calls passed checkRateLimit before either had logged its failure, and
\* the window holds more than 5 failed rows
C28_Witness ==
    /\ logins.overlapped
    /\ FailedInWindow(R1) > FailedThreshold

\* one call after the other: the fifth failure is stored and the next call
\* was turned away
C28_SerialAtBound ==
    /\ ~logins.overlapped
    /\ FailedInWindow(R1) = FailedThreshold
    /\ toast = "rate_limited"


----------------------------------------------------------------------------
(* The coordinates of a record *)

\* the distance of a stored row's coordinates from the college
RowDistance(row) ==
    calculateDistance(row.gps_latitude, row.gps_longitude, COLLEGE_LAT, COLLEGE_LON)

\* every row sent or stored is 'passed', at whatever distance
C29_AlwaysPassed ==
    /\ \A m \in BagToSet(marks) :
           m.stage = "insert" =>
               LET row == AttendanceRow(m, now) IN
               /\ row.verification_status = "passed"
               /\ row.gps_latitude = m.position.latitude
               /\ row.gps_longitude = m.position.longitude
    /\ \A r \in BagToSet(attendance_records) : r.verification_status = "passed"

\* the coordinates are those the device reports when markAttendance's own
\* request is answered, and the row stored is the row composed from them
C29_OwnRequest ==
    /\ \A m \in BagToSet(marks) :
           MarkPosition(m, TRUE) =>
               \E n \in BagToSet(marks') :
                   n.stage = "insert" /\ n.position = devicePosition
    /\ \A m \in BagToSet(marks) :
           (MarkInsert(m, FALSE) /\ attendance_records' # attendance_records) =>
               attendance_records' =
                   attendance_records (+) SetToBag({AttendanceRow(m, now)})

\* C29: markAttendance stores the position its own request returns and does
\* not compare it with the radius: the row is 'passed' at any distance
C29_NoRecheck == [](C29_AlwaysPassed) /\ [][C29_OwnRequest]_vars

\* the location was verified inside the radius, and a 'passed' row is stored
\* with coordinates farther than 100 m
C29_Witness ==
    /\ verifiedAt # NoPosition
    /\ WithinRadius(calculateDistance(verifiedAt.latitude, verifiedAt.longitude,
                                      COLLEGE_LAT, COLLEGE_LON))
    /\ \E r \in BagToSet(attendance_records) :
           /\ r.verification_status = "passed"
           /\ ~WithinRadius(RowDistance(r))


----------------------------------------------------------------------------
(* A roll number signed up again *)

\* the rows stored for student sid
RecordsOf(sid) == { r \in BagToSet(attendance_records) : r.student_id = sid }

\* what a sign-up d that creates a user does to the row `old` of its roll number
Reassigned(d, old) ==
    LET new == Cardinality(users) + 1
        prev == old.user_id
    IN
    /\ new # prev
    /\ [old EXCEPT !.user_id = new, !.name = d.name, !.email = d.email] \in students'
    /\ \A st \in students' : st.id = old.id => st.user_id = new
    /\ \A st \in StudentsVisible(students', prev) : st.id # old.id
    /\ \E st \in StudentsVisible(students', new) : st.id = old.id
    /\ \A r \in RecordsOf(old.id) :
           /\ BagIn(r, attendance_records')
           /\ ~BagIn(r, AttendanceVisibleIn(attendance_records', students', prev))
           /\ BagIn(r, AttendanceVisibleIn(attendance_records', students', new))
    /\ AttendanceInsertAllowed(ApiRow(old.id), students', new)
    /\ ~AttendanceInsertAllowed(ApiRow(old.id), students', prev)

\* C30: a sign-up under a new identity with a roll number that has a row
\* gives the row, id unchanged, to the new identity: the previous identity
\* no longer reads it, and the new one reads the attendance records stored for
\* that student_id and may insert more
C30_RowChangesHands ==
    [][ \A d \in StoreSignups, old \in students :
            ( /\ users' # users
              /\ old.roll_number = d.rollNumber
              /\ \E s \in BOOLEAN : HandleSignup(d, s) )
            => Reassigned(d, old) ]_vars

\* the first identity is still signed in, its row now belongs to a second
\* identity that never had a session, and the records it inserted are out of
\* its reach
C30_Witness ==
    /\ session = 1
    /\ \E st \in students : st.id = 1 /\ st.roll_number = R1 /\ st.user_id = 2
    /\ RecordsOf(1) # {}
    /\ AttendanceVisible(attendance_records, 1) = EmptyBag
    /\ AttendanceVisible(attendance_records, 2) = attendance_records


----------------------------------------------------------------------------
(* AttendanceRecords: the answers in any order *)

\* the 10 most recent rows of the viewer's student, as the store holds them
RecentRows == fetchRecordsQuery(attendance_records, studentData.id, session)

\* C31: when the last outstanding fetchRecords call completes with data, the
\* list shown is the 10 most recent rows of the student in the store, in
\* whatever order the change notifications and the answers came
C31_LastAnswerShown ==
    [][ \A a \in BagToSet(fetches) :
            (FetchDone(a) /\ a.ok /\ fetches' = EmptyBag) => records' = RecentRows
      ]_vars


----------------------------------------------------------------------------
(* The job and the rate limiter *)

\* the table after cleanup_old_login_attempts() run now
Cleaned == cleanup_old_login_attempts(login_attempts, now)

\* the job takes away rows older than 24 hours and no other
C32_OnlyOld ==
    \A r \in BagToSet(login_attempts) :
        IF now - r.attempt_time > RetentionMinutes
        THEN ~BagIn(r, Cleaned)
        ELSE CopiesIn(r, Cleaned) = CopiesIn(r, login_attempts)

\* checkRateLimit, now or later, decides on the table the job has cleaned as
\* on the table as it is
C32_SameDecision ==
    \A i \in Rolls, later \in {0, WindowMinutes, RetentionMinutes} :
        /\ FailedSeen(Cleaned, students, session, i, now + later)
             = FailedSeen(login_attempts, students, session, i, now + later)
        /\ Rejects(Cleaned, students, session, i, now + later)
             = Rejects(login_attempts, students, session, i, now + later)

\* C32: cleanup_old_login_attempts deletes only rows older than 24 hours, and
\* running it changes the result of checkRateLimit for no identifier
C32_CleanupKeepsDecision == C32_OnlyOld /\ C32_SameDecision

\* the job has something to delete while the client is being turned away
C32_Witness ==
    /\ Cleaned # login_attempts
    /\ Rejects(login_attempts, students, session, R1, now)
    /\ Rejects(Cleaned, students, session, R1, now)

====
